---- MODULE Spec2Model ----
(***************************************************************************)
(* cidrtrie: a prefix trie over binary strings (Trie) and the CIDR layer   *)
(* on top of it (CidrClassifier).                                          *)
(*                                                                         *)
(* Representation.  A _TrieNode object is named by the string of symbols   *)
(* that leads to it from the root (the root is <<>>); `trie` maps each     *)
(* existing node to its fields.  A Python list object created by insert    *)
(* is named by the node that holds it; `heap` maps each live list to its   *)
(* content, and a node's `data` field is a reference into the heap (or     *)
(* None).  A list that no node holds any more is garbage and its name is   *)
(* reused by the next list created at that node.  An IPv4 address string   *)
(* is represented by the integer struct.unpack('!L', inet_aton(ip))[0],    *)
(* over AddrBits bits instead of 32.                                       *)
(***************************************************************************)
EXTENDS Integers, Sequences, FiniteSets, TLC

VARIABLES trie, heap, result

vars == <<trie, heap, result>>

\* ---- bounds of the model ----
AddrBits == 3
MaxValues == 2

Hops == {"HopA", "HopB"}
Addrs == 0 .. (2^AddrBits - 1)
\* the mask lengths of the mappings: the default route, the shortest mask and
\* the two longest
Masks == {0, 1, AddrBits - 1, AddrBits}
Bases == {2^AddrBits - 1, 2^AddrBits - 2}

\* ---- Python values ----
PyNone == [t |-> "None"]
PyInt(n) == [t |-> "int", v |-> n]
ListRef(id) == [t |-> "list", id |-> id]
NodeRef(id) == [t |-> "node", id |-> id]

MODE_SHORTEST_PREFIX == 0
MODE_LONGEST_PREFIX == 1
MODE_EXACT_ONLY == 2
Modes == {MODE_SHORTEST_PREFIX, MODE_LONGEST_PREFIX, MODE_EXACT_ONLY}

\* ---- _TrieNode ----
EmptyDict == [c \in {} |-> <<>>]

TrieNode(value) == [value |-> value, terminal |-> FALSE, data |-> PyNone, children |-> EmptyDict]

root == <<>>

\* _TrieNode.__contains__
Contains(T, node, item) == item \in DOMAIN T[node].children

\* _TrieNode.__getitem__
GetItem(T, node, value) == T[node].children[value]

\* _TrieNode.add_child: the new node, and the trie with it linked in; the
\* assert fails when the symbol is already a child
add_child(T, node, value) ==
    IF Contains(T, node, value)
    THEN [exc |-> "AssertionError", trie |-> T, node |-> node]
    ELSE LET new_node == Append(node, value)
         IN  [exc |-> "None",
              trie |-> [n \in DOMAIN T \cup {new_node} |->
                          IF n = new_node THEN TrieNode(value)
                          ELSE IF n = node
                               THEN [T[n] EXCEPT !.children = (value :> new_node) @@ T[n].children]
                               ELSE T[n]],
              node |-> new_node]

\* ---- list operations ----
Deref(H, ref) == IF ref.t = "list" THEN H[ref.id] ELSE <<>>

RECURSIVE ListIndex(_, _, _)
ListIndex(l, x, i) ==
    IF i > Len(l) THEN 0
    ELSE IF l[i] = x THEN i
    ELSE ListIndex(l, x, i + 1)

\* a remove that drops the last item equal to x
ListRemove_last(l, x) ==
    LET i == CHOOSE k \in 1 .. Len(l) : l[k] = x /\ \A j \in (k + 1) .. Len(l) : l[j] # x
    IN  [j \in 1 .. (Len(l) - 1) |-> IF j < i THEN l[j] ELSE l[j + 1]]

\* a remove that drops every item equal to x
ListRemove_all(l, x) == SelectSeq(l, LAMBDA y : y # x)

\* list.remove(x): drops the first item equal to x
ListRemove(l, x) ==
    LET i == ListIndex(l, x, 1)
    IN  [j \in 1 .. (Len(l) - 1) |-> IF j < i THEN l[j] ELSE l[j + 1]]

\* ---- Trie.insert ----
\* the loop over the characters: follow the child or create it
RECURSIVE insert_walk(_, _, _, _)
insert_walk(T, current, string, i) ==
    IF i > Len(string) THEN [exc |-> "None", trie |-> T, node |-> current]
    ELSE IF Contains(T, current, string[i])
         THEN insert_walk(T, GetItem(T, current, string[i]), string, i + 1)
         ELSE LET r == add_child(T, current, string[i])
              IN  IF r.exc # "None" THEN r
                  ELSE insert_walk(r.trie, r.node, string, i + 1)

\* an insert that rejects a value the key already holds
insert_dedup(T, H, string, data) ==
    LET w == insert_walk(T, root, string, 1)
        current == w.node
        fresh == ~w.trie[current].terminal
        old == IF fresh THEN <<>> ELSE H[w.trie[current].data.id]
    IN  IF data \in {old[i] : i \in 1 .. Len(old)}
        THEN [exc |-> "DuplicateKeyError", trie |-> T, heap |-> H]
        ELSE [exc |-> w.exc,
              trie |-> [w.trie EXCEPT ![current].data = ListRef(current), ![current].terminal = TRUE],
              heap |-> [id \in DOMAIN H \cup {current} |->
                          IF id = current THEN Append(old, data) ELSE H[id]]]

\* an insert that creates the list of a new key without marking the node terminal
insert_keeps_flag(T, H, string, data) ==
    LET w == insert_walk(T, root, string, 1)
        current == w.node
        fresh == ~w.trie[current].terminal
    IN  [exc |-> w.exc,
         trie |-> [w.trie EXCEPT ![current].data = ListRef(current)],
         heap |-> [id \in DOMAIN H \cup {current} |->
                     IF id = current THEN <<data>> ELSE H[id]]]

\* an insert that puts the new value in front of the list
insert_prepend(T, H, string, data) ==
    LET w == insert_walk(T, root, string, 1)
        current == w.node
        fresh == ~w.trie[current].terminal
        old == IF fresh THEN <<>> ELSE H[w.trie[current].data.id]
    IN  [exc |-> w.exc,
         trie |-> [w.trie EXCEPT ![current].data = ListRef(current), ![current].terminal = TRUE],
         heap |-> [id \in DOMAIN H \cup {current} |->
                     IF id = current THEN <<data>> \o old ELSE H[id]]]

insert(T, H, string, data) ==
    LET w == insert_walk(T, root, string, 1)
    IN  IF w.exc # "None" THEN [exc |-> w.exc, trie |-> T, heap |-> H]
        ELSE LET current == w.node
                 fresh == ~w.trie[current].terminal
                 T1 == IF fresh
                       THEN [w.trie EXCEPT ![current].data = ListRef(current),
                                           ![current].terminal = TRUE]
                       ELSE w.trie
                 H1 == IF fresh
                       THEN [id \in DOMAIN H \cup {current} |->
                               IF id = current THEN <<>> ELSE H[id]]
                       ELSE H
                 lst == T1[current].data.id
             IN  [exc |-> "None",
                  trie |-> T1,
                  heap |-> [H1 EXCEPT ![lst] = Append(H1[lst], data)]]

\* ---- Trie.find_node ----
\* ''.join(p.value for p in path)
Join(T, path) == [j \in 1 .. Len(path) |-> T[path[j]].value]

\* the for loop: how |-> "return" (a terminal node hit in shortest-prefix
\* mode), "break" (a missing child) or "else" (the string exhausted)
RECURSIVE find_walk(_, _, _, _, _, _)
find_walk(T, string, mode, current, path, i) ==
    IF i > Len(string) THEN [how |-> "else", current |-> current, path |-> path]
    ELSE IF Contains(T, current, string[i])
         THEN LET nxt == GetItem(T, current, string[i])
                  path1 == Append(path, nxt)
              IN  IF T[nxt].terminal /\ mode = MODE_SHORTEST_PREFIX
                  THEN [how |-> "return", current |-> nxt, path |-> path1]
                  ELSE find_walk(T, string, mode, nxt, path1, i + 1)
         ELSE [how |-> "break", current |-> current, path |-> path]

\* a backward scan that goes on to the shallowest terminal node
Backtrack_first(T, path) ==
    LET S == {i \in 1 .. Len(path) : T[path[i]].terminal}
    IN  IF S = {} THEN 0 ELSE CHOOSE i \in S : \A j \in S : i <= j

\* a backward scan that stops at the deepest node that has a value list
Backtrack_has_list(T, path) ==
    LET S == {i \in 1 .. Len(path) : T[path[i]].data.t = "list"}
    IN  IF S = {} THEN 0 ELSE CHOOSE i \in S : \A j \in S : j <= i

\* for i in reversed(range(len(path))): the largest i with path[i] terminal, 0 if none
Backtrack(T, path) ==
    LET S == {i \in 1 .. Len(path) : T[path[i]].terminal}
    IN  IF S = {} THEN 0 ELSE CHOOSE i \in S : \A j \in S : j <= i

KeyError == [exc |-> "KeyError"]
Found(prefix, node) == [exc |-> "None", prefix |-> prefix, node |-> node]

\* a find_node whose backward scan does not fall back to the root
find_node_no_root(T, string, mode) ==
    IF T[root].terminal /\ mode = MODE_SHORTEST_PREFIX
    THEN Found(<<>>, T[root].data)
    ELSE LET w == find_walk(T, string, mode, root, <<>>, 1)
         IN  IF w.how = "return" THEN Found(Join(T, w.path), NodeRef(w.current))
             ELSE IF w.how = "else" /\ T[w.current].terminal
                  THEN Found(Join(T, w.path), NodeRef(w.current))
             ELSE IF mode = MODE_LONGEST_PREFIX
                  THEN LET i == Backtrack(T, w.path)
                       IN  IF i > 0
                           THEN Found(Join(T, SubSeq(w.path, 1, i)), NodeRef(w.path[i]))
                           ELSE KeyError
                  ELSE KeyError

find_node(T, string, mode) ==
    IF T[root].terminal /\ mode = MODE_SHORTEST_PREFIX
    THEN Found(<<>>, T[root].data)
    ELSE LET w == find_walk(T, string, mode, root, <<>>, 1)
         IN  IF w.how = "return" THEN Found(Join(T, w.path), NodeRef(w.current))
             ELSE IF w.how = "else" /\ T[w.current].terminal
                  THEN Found(Join(T, w.path), NodeRef(w.current))
             ELSE IF mode = MODE_LONGEST_PREFIX
                  THEN LET i == Backtrack(T, w.path)
                       IN  IF i > 0
                           THEN Found(Join(T, SubSeq(w.path, 1, i)), NodeRef(w.path[i]))
                           ELSE IF T[root].terminal THEN Found(<<>>, NodeRef(root))
                           ELSE KeyError
                  ELSE KeyError

\* ---- Trie.find: the mode argument is not passed on to find_node ----
find(T, string, mode) ==
    LET r == find_node(T, string, MODE_LONGEST_PREFIX)
    IN  IF r.exc # "None" THEN r
        ELSE [exc |-> "None", prefix |-> r.prefix, data |-> T[r.node.id].data]

\* ---- Trie.remove ----
\* a remove that leaves the node terminal when its list becomes empty
remove_no_demote(T, H, string, data) ==
    LET r == find_node(T, string, MODE_EXACT_ONLY)
    IN  IF r.exc # "None" THEN [exc |-> r.exc, trie |-> T, heap |-> H]
        ELSE LET lst == T[r.node.id].data.id
             IN  IF ListIndex(H[lst], data, 1) = 0
                 THEN [exc |-> "ValueError", trie |-> T, heap |-> H]
                 ELSE [exc |-> "None", trie |-> T,
                       heap |-> [H EXCEPT ![lst] = ListRemove(H[lst], data)]]

\* a remove that clears the terminal flag before it looks for the value
remove_flag_first(T, H, string, data) ==
    LET r == find_node(T, string, MODE_EXACT_ONLY)
    IN  IF r.exc # "None" THEN [exc |-> r.exc, trie |-> T, heap |-> H]
        ELSE LET node == r.node.id
                 lst == T[node].data.id
                 T0 == [T EXCEPT ![node].terminal = FALSE]
             IN  IF ListIndex(H[lst], data, 1) = 0
                 THEN [exc |-> "ValueError", trie |-> T0, heap |-> H]
                 ELSE LET H1 == [H EXCEPT ![lst] = ListRemove(H[lst], data)]
                      IN  [exc |-> "None",
                           trie |-> IF H1[lst] = <<>> THEN T0 ELSE T,
                           heap |-> H1]

\* a remove that unlinks the node once it holds no value and has no child
remove_prune(T, H, string, data) ==
    LET r == find_node(T, string, MODE_EXACT_ONLY)
    IN  IF r.exc # "None" THEN [exc |-> r.exc, trie |-> T, heap |-> H]
        ELSE LET node == r.node.id
                 lst == T[node].data.id
             IN  IF ListIndex(H[lst], data, 1) = 0
                 THEN [exc |-> "ValueError", trie |-> T, heap |-> H]
                 ELSE LET H1 == [H EXCEPT ![lst] = ListRemove(H[lst], data)]
                          parent == SubSeq(node, 1, Len(node) - 1)
                          kept == DOMAIN T[parent].children \ {node[Len(node)]}
                      IN  IF H1[lst] # <<>> THEN [exc |-> "None", trie |-> T, heap |-> H1]
                          ELSE IF node = root \/ T[node].children # EmptyDict
                          THEN [exc |-> "None",
                                trie |-> [T EXCEPT ![node].terminal = FALSE],
                                heap |-> H1]
                          ELSE [exc |-> "None",
                                trie |-> [n \in DOMAIN T \ {node} |->
                                            IF n = parent
                                            THEN [T[n] EXCEPT !.children =
                                                     [c \in kept |-> T[n].children[c]]]
                                            ELSE T[n]],
                                heap |-> [l \in DOMAIN H1 \ {lst} |-> H1[l]]]

remove(T, H, string, data) ==
    LET r == find_node(T, string, MODE_EXACT_ONLY)
    IN  IF r.exc # "None" THEN [exc |-> r.exc, trie |-> T, heap |-> H]
        ELSE LET node == r.node.id
                 lst == T[node].data.id
             IN  IF ListIndex(H[lst], data, 1) = 0
                 THEN [exc |-> "ValueError", trie |-> T, heap |-> H]
                 ELSE LET H1 == [H EXCEPT ![lst] = ListRemove(H[lst], data)]
                      IN  [exc |-> "None",
                           trie |-> IF H1[lst] = <<>>
                                    THEN [T EXCEPT ![node].terminal = FALSE]
                                    ELSE T,
                           heap |-> H1]

\* ---- _ip_to_binary_string ----
Digit(n) == IF n = 0 THEN "0" ELSE "1"

\* bin(integer)[2:]
RECURSIVE Bin(_)
Bin(n) == IF n < 2 THEN <<Digit(n)>> ELSE Append(Bin(n \div 2), Digit(n % 2))

Zeros(k) == [j \in 1 .. k |-> "0"]

\* str.zfill(width)
Zfill(s, width) == IF Len(s) >= width THEN s ELSE Zeros(width - Len(s)) \o s

ip_to_binary_string(ip) == Zfill(Bin(ip), AddrBits)

\* int(prefix, 2)
RECURSIVE ParseInt2(_)
ParseInt2(s) ==
    IF s = <<>> THEN 0
    ELSE 2 * ParseInt2(SubSeq(s, 1, Len(s) - 1)) + (IF s[Len(s)] = "1" THEN 1 ELSE 0)

\* a slice that takes the last mask characters
Slice_tail(s, mask) == SubSeq(s, Len(s) - (IF mask < Len(s) THEN mask ELSE Len(s)) + 1, Len(s))

\* string[:mask]
Slice(s, mask) == SubSeq(s, 1, IF mask < Len(s) THEN mask ELSE Len(s))

\* ---- CidrClassifier ----
CidrResult(base, mask, next_hop) == [base |-> base, mask |-> mask, next_hop |-> next_hop]

add_mapping(T, H, base, mask, next_hop) ==
    insert(T, H, Slice(ip_to_binary_string(base), mask), next_hop)

\* a remove_mapping that locates its node by longest-prefix match
remove_mapping_longest(T, H, base, mask, next_hop) ==
    LET r == find_node(T, Slice(ip_to_binary_string(base), mask), MODE_LONGEST_PREFIX)
    IN  IF r.exc # "None" THEN [exc |-> r.exc, trie |-> T, heap |-> H]
        ELSE remove(T, H, r.prefix, next_hop)

remove_mapping(T, H, base, mask, next_hop) ==
    remove(T, H, Slice(ip_to_binary_string(base), mask), next_hop)

\* a lookup that takes the mask after the prefix is padded
lookup_mask_after_pad(T, ip, return_unroutable) ==
    LET r == find(T, ip_to_binary_string(ip), MODE_LONGEST_PREFIX)
    IN  IF r.exc = "None"
        THEN LET padded == r.prefix \o Zeros(AddrBits - Len(r.prefix))
             IN  [exc |-> "None", val |-> CidrResult(ParseInt2(padded), Len(padded), r.data)]
        ELSE IF return_unroutable
             THEN [exc |-> "None", val |-> CidrResult(0, 0, PyInt(0))]
             ELSE [exc |-> r.exc, val |-> PyNone]

\* a lookup that turns every KeyError into the sentinel
lookup_always_unroutable(T, ip, return_unroutable) ==
    LET r == find(T, ip_to_binary_string(ip), MODE_LONGEST_PREFIX)
    IN  IF r.exc = "None"
        THEN [exc |-> "None",
              val |-> CidrResult(ParseInt2(r.prefix \o Zeros(AddrBits - Len(r.prefix))),
                                 Len(r.prefix), r.data)]
        ELSE [exc |-> "None", val |-> CidrResult(0, 0, PyInt(0))]

lookup(T, ip, return_unroutable) ==
    LET r == find(T, ip_to_binary_string(ip), MODE_LONGEST_PREFIX)
    IN  IF r.exc = "None"
        THEN LET mask == Len(r.prefix)
                 prefix == ParseInt2(r.prefix \o Zeros(AddrBits - Len(r.prefix)))
             IN  [exc |-> "None", val |-> CidrResult(prefix, mask, r.data)]
        ELSE IF return_unroutable
             THEN [exc |-> "None", val |-> CidrResult(0, 0, PyInt(0))]
             ELSE [exc |-> r.exc, val |-> PyNone]

\* ---- the state machine ----
\* number of values stored in all lists
RECURSIVE SumLen(_, _)
SumLen(H, S) ==
    IF S = {} THEN 0
    ELSE LET id == CHOOSE x \in S : TRUE
         IN  Len(H[id]) + SumLen(H, S \ {id})

TotalValues == SumLen(heap, DOMAIN heap)

\* the keys Trie.find is called with: the keys of the
\* mappings and one key off every stored path
FindKeys == {Slice(ip_to_binary_string(b), m) : b \in Bases, m \in Masks} \cup {<<"0">>}

\* the addresses lookup is called with
Ips == Bases \cup {0, 2^(AddrBits - 1) + 1}

Init ==
    /\ trie = [n \in {root} |-> TrieNode(PyNone)]
    /\ heap = [id \in {} |-> <<>>]
    /\ result = [op |-> "init", exc |-> "None", val |-> PyNone]

AddMapping(base, mask, next_hop) ==
    /\ TotalValues < MaxValues
    /\ LET r == add_mapping(trie, heap, base, mask, next_hop)
       IN  /\ trie' = r.trie
           /\ heap' = r.heap
           /\ result' = [op |-> "add_mapping", exc |-> r.exc, val |-> PyNone]

RemoveMapping(base, mask, next_hop) ==
    LET r == remove_mapping(trie, heap, base, mask, next_hop)
    IN  /\ trie' = r.trie
        /\ heap' = r.heap
        /\ result' = [op |-> "remove_mapping", exc |-> r.exc, val |-> PyNone]

\* a lookup whose walk creates the children it does not find
Lookup_creating(ip, return_unroutable) ==
    LET r == lookup(trie, ip, return_unroutable)
    IN  /\ result' = [op |-> "lookup", exc |-> r.exc, val |-> r.val]
        /\ trie' = insert_walk(trie, root, ip_to_binary_string(ip), 1).trie
        /\ UNCHANGED heap

Lookup(ip, return_unroutable) ==
    LET r == lookup(trie, ip, return_unroutable)
    IN  /\ result' = [op |-> "lookup", exc |-> r.exc, val |-> r.val]
        /\ UNCHANGED <<trie, heap>>

Find(string, mode) ==
    LET r == find(trie, string, mode)
    IN  /\ result' = [op |-> "find", exc |-> r.exc,
                      val |-> IF r.exc = "None" THEN <<r.prefix, r.data>> ELSE PyNone]
        /\ UNCHANGED <<trie, heap>>

Next ==
    \/ \E base \in Bases, mask \in Masks, next_hop \in Hops : AddMapping(base, mask, next_hop)
    \/ \E base \in Bases, mask \in Masks, next_hop \in Hops : RemoveMapping(base, mask, next_hop)
    \/ \E ip \in Ips, return_unroutable \in BOOLEAN : Lookup(ip, return_unroutable)
    \/ \E string \in FindKeys, mode \in Modes : Find(string, mode)

Spec == Init /\ [][Next]_vars

\* ---- vocabulary of the properties ----
\* the bits of an address, most significant first
BitsTable ==
    [ip \in Addrs |->
        [j \in 1 .. AddrBits |-> IF (ip \div 2^(AddrBits - j)) % 2 = 1 THEN "1" ELSE "0"]]

Bits(ip) == BitsTable[ip]

\* the key of the mapping base/mask
Key(base, mask) == [j \in 1 .. mask |-> Bits(base)[j]]

\* the address whose leading bits are k and whose other bits are zero
NetworkOf(k) ==
    LET Weight(j) == IF k[j] = "1" THEN 2^(AddrBits - j) ELSE 0
        sum[j \in 0 .. Len(k)] == IF j = 0 THEN 0 ELSE sum[j - 1] + Weight(j)
    IN  sum[Len(k)]

IsPrefix(p, s) == Len(p) <= Len(s) /\ \A j \in 1 .. Len(p) : p[j] = s[j]

Range(l) == {l[i] : i \in 1 .. Len(l)}
Count(x, l) == Cardinality({i \in 1 .. Len(l) : l[i] = x})

\* the values stored at key k in the trie T with the lists H
Values(T, H, k) == IF k \in DOMAIN T THEN Deref(H, T[k].data) ELSE <<>>

\* the keys that hold at least one value
Holding(T, H) == {k \in DOMAIN T : Values(T, H, k) # <<>>}

\* the keys holding values that cover the address ip
Covering(T, H, ip) == {k \in Holding(T, H) : IsPrefix(k, Bits(ip))}

Longest(S) == CHOOSE k \in S : \A j \in S : Len(j) <= Len(k)
Shortest(S) == CHOOSE k \in S : \A j \in S : Len(k) <= Len(j)

TypeOK ==
    /\ \A n \in DOMAIN trie : trie[n].data.t \in {"None", "list"}
    /\ \A n \in DOMAIN trie : trie[n].data.t = "list" => trie[n].data.id \in DOMAIN heap

\* ---- C1 ----
\* C1: in every state reached by add_mapping and remove_mapping calls, lookup(ip)
\* returns the mapping of the longest key among the keys that hold a value and
\* are a prefix of ip's bits, with mask the length of that key, and raises
\* KeyError exactly when no such key exists.
C1_LongestPrefixMatch ==
    \A ip \in Addrs :
        LET S == Covering(trie, heap, ip)
            r == lookup(trie, ip, FALSE)
        IN  IF S = {}
            THEN r.exc = "KeyError"
            ELSE /\ r.exc = "None"
                 /\ r.val = CidrResult(NetworkOf(Longest(S)), Len(Longest(S)), ListRef(Longest(S)))
                 /\ Deref(heap, r.val.next_hop) = Values(trie, heap, Longest(S))

\* a lookup has returned the mask-2 mapping while the shorter key "1" holds
\* values too and a key of full length has had all its values removed
C1_Witness ==
    /\ result.op = "lookup" /\ result.exc = "None"
    /\ result.val.mask = 2
    /\ <<"1">> \in Holding(trie, heap)
    /\ \E k \in DOMAIN trie : Len(k) = 3 /\ trie[k].data.t = "list" /\ Values(trie, heap, k) = <<>>

\* ---- C2 ----
\* the addresses inside base/mask that no stored mapping with a longer mask covers
InsideOf(T, H, base, mask) ==
    LET key == Key(base, mask)
        longer == {k \in Holding(T, H) : Len(k) > mask}
    IN  {ip \in Addrs : /\ IsPrefix(key, Bits(ip))
                        /\ \A k \in longer : ~IsPrefix(k, Bits(ip))}

\* the addresses of S that are inside base/mask in the same sense
InsideAmong(S, T, H, base, mask) ==
    LET key == Key(base, mask)
        longer == {k \in DOMAIN T : Len(k) > mask /\ Values(T, H, k) # <<>>}
    IN  {ip \in S : /\ IsPrefix(key, Bits(ip))
                    /\ \A k \in longer : ~IsPrefix(k, Bits(ip))}

Inside(base, mask) == InsideOf(trie, heap, base, mask)

Stored(base, mask, hop) == hop \in Range(Values(trie, heap, Key(base, mask)))

\* C2 as stated: for every stored mapping (base, mask, hop), lookup of any ip
\* inside base/mask that no longer mask covers returns (base, mask, [hop]).
C2_Original ==
    \A base \in Bases, mask \in Masks, hop \in Hops :
        Stored(base, mask, hop) =>
            \A ip \in Inside(base, mask) :
                LET r == lookup(trie, ip, FALSE)
                IN  /\ r.exc = "None"
                    /\ r.val.base = base
                    /\ r.val.mask = mask
                    /\ Deref(heap, r.val.next_hop) = <<hop>>

\* C2 amended: for every stored mapping (base, mask, hop), lookup of any ip
\* inside base/mask that no longer mask covers returns the base with the bits
\* below the mask cleared, the mask, and the list of all the values stored at
\* that key, hop among them; this is (base, mask, [hop]) when the base is
\* canonical and hop is the only value stored at the key.
C2_Amended ==
    \A base \in Bases, mask \in Masks, hop \in Hops :
        Stored(base, mask, hop) =>
            \A ip \in Inside(base, mask) :
                LET r == lookup(trie, ip, FALSE)
                    stored == Values(trie, heap, Key(base, mask))
                IN  /\ r.exc = "None"
                    /\ r.val.base = base - (base % 2^(AddrBits - mask))
                    /\ r.val.mask = mask
                    /\ Deref(heap, r.val.next_hop) = stored
                    /\ hop \in Range(stored)
                    /\ (base % 2^(AddrBits - mask) = 0 /\ stored = <<hop>>) =>
                           /\ r.val.base = base
                           /\ Deref(heap, r.val.next_hop) = <<hop>>

\* a lookup has returned the mask-2 mapping, which holds two values and is the
\* longest stored mapping, so that the non-canonical base 2^AddrBits - 1 is
\* answered by its network address
C2_Witness ==
    /\ result.op = "lookup" /\ result.exc = "None"
    /\ result.val.mask = 2
    /\ Len(Deref(heap, result.val.next_hop)) = 2
    /\ result.val.base # 2^AddrBits - 1
    /\ 2^AddrBits - 1 \in Inside(2^AddrBits - 1, 2)

\* ---- C3 ----
\* l2 is l with one item taken out, the others in their order
IsDeletion(l, l2) ==
    /\ Len(l2) = Len(l) - 1
    /\ \E i \in 1 .. Len(l) : \A j \in 1 .. Len(l2) : l2[j] = (IF j < i THEN l[j] ELSE l[j + 1])

\* one call for each key the calls of the model can name: the all-ones base
\* with every mask, and the other base where its key differs
Mappings == {bm \in Bases \X Masks : bm[1] = 2^AddrBits - 1 \/ bm[2] = AddrBits}

AllKeys == {Key(base, mask) : base \in Bases, mask \in Masks}

C3_Returned ==
    \A ip \in Addrs :
        LET r == lookup(trie, ip, FALSE)
        IN  r.exc = "None" =>
                Deref(heap, r.val.next_hop) = Values(trie, heap, Key(r.val.base, r.val.mask))

Others(k) == AllKeys \ {k}

C3_Appends ==
    \A base \in Bases, mask \in Masks, hop \in Hops :
        LET k == Key(base, mask)
            old == Values(trie, heap, k)
            a == add_mapping(trie, heap, base, mask, hop)
            d == remove_mapping(trie, heap, base, mask, hop)
        IN  /\ Values(a.trie, a.heap, k) = Append(old, hop)
            /\ \A j \in Others(k) : Values(a.trie, a.heap, j) = Values(trie, heap, j)
            /\ d.exc = "None" =>
                   /\ IsDeletion(old, Values(d.trie, d.heap, k))
                   /\ \A j \in Others(k) : Values(d.trie, d.heap, j) = Values(trie, heap, j)

\* C3: the next-hop collection lookup returns for a matched (base, mask) is the
\* list of the values stored at that key; add_mapping puts the new hop after
\* all the values the key already has, and remove_mapping takes one value out
\* and keeps the others in their order, so the list is in the order in which
\* its values were added.
C3_InsertionOrder == C3_Returned /\ C3_Appends

\* a lookup has returned two hops, the one added first in front
C3_Witness ==
    /\ result.op = "lookup" /\ result.exc = "None"
    /\ Deref(heap, result.val.next_hop) = <<"HopB", "HopA">>

\* ---- C4 ----
\* C4: when remove_mapping removes the last value stored at a (base, mask), a
\* lookup of an address in that range made right after it returns the most
\* specific of the other mappings that cover the address, with the values that
\* mapping had before the removal, and raises KeyError when there is none.
C4_RemoveFallsBack ==
    \A base \in Bases, mask \in Masks, hop \in Hops :
        Values(trie, heap, Key(base, mask)) = <<hop>> =>
            LET d == remove_mapping(trie, heap, base, mask, hop)
            IN  /\ d.exc = "None"
                /\ \A ip \in Addrs :
                       IsPrefix(Key(base, mask), Bits(ip)) =>
                           LET S == Covering(trie, heap, ip) \ {Key(base, mask)}
                               r == lookup(d.trie, ip, FALSE)
                           IN  IF S = {}
                               THEN r.exc = "KeyError"
                               ELSE /\ r.exc = "None"
                                    /\ r.val.base = NetworkOf(Longest(S))
                                    /\ r.val.mask = Len(Longest(S))
                                    /\ Deref(d.heap, r.val.next_hop) = Values(trie, heap, Longest(S))

\* the mask-2 key has had its last value removed and a lookup made after it fell
\* back to the mask-1 mapping
C4_Witness ==
    /\ result.op = "lookup" /\ result.exc = "None"
    /\ result.val.mask = 1
    /\ Deref(heap, result.val.next_hop) # <<>>
    /\ <<"1", "1">> \in DOMAIN heap
    /\ heap[<<"1", "1">>] = <<>>
    /\ \A k \in Holding(trie, heap) : Len(k) <= 1

\* ---- C5 ----
\* C5: remove_mapping(base, mask, hop) raises KeyError whenever no value is
\* stored at exactly that key, whatever shorter or longer keys hold, and raises
\* ValueError when the key holds values of which none equals hop.
C5_RemoveExactMatch ==
    \A base \in Bases, mask \in Masks, hop \in Hops :
        LET stored == Values(trie, heap, Key(base, mask))
            r == remove_mapping(trie, heap, base, mask, hop)
        IN  /\ stored = <<>> => r.exc = "KeyError"
            /\ (stored # <<>> /\ hop \notin Range(stored)) => r.exc = "ValueError"
            /\ hop \in Range(stored) => r.exc = "None"

\* a remove_mapping has raised KeyError while the mask-1 key, a prefix or an
\* extension of every other key, holds values
C5_Witness ==
    /\ result.op = "remove_mapping" /\ result.exc = "KeyError"
    /\ Holding(trie, heap) = {<<"1">>}
    /\ DOMAIN trie # {<<>>, <<"1">>}

\* ---- C6 ----
Unroutable == CidrResult(0, 0, PyInt(0))

\* C6: lookup(ip, return_unroutable=True) returns the sentinel ("0.0.0.0", 0, 0)
\* exactly when lookup(ip, return_unroutable=False) raises KeyError, and returns
\* what that call returns whenever it succeeds.
C6_Unroutable ==
    \A ip \in Addrs :
        LET u == lookup(trie, ip, TRUE)
            r == lookup(trie, ip, FALSE)
        IN  /\ u.exc = "None"
            /\ (u.val = Unroutable) <=> (r.exc = "KeyError")
            /\ r.exc = "None" => u = r
            /\ r.exc \in {"None", "KeyError"}

\* a lookup has returned the sentinel while a mapping is stored that does not
\* cover the address
C6_Witness ==
    /\ result.op = "lookup" /\ result.exc = "None"
    /\ result.val = Unroutable
    /\ Holding(trie, heap) # {}

\* ---- C7 ----
\* C7: find(key, EXACT) succeeds only when key itself is terminal, returning
\* (key, the values at key), and raises KeyError otherwise, also when a proper
\* prefix of key is terminal.
C7_FindExact ==
    \A key \in FindKeys :
        LET r == find(trie, key, MODE_EXACT_ONLY)
        IN  IF key \in DOMAIN trie /\ trie[key].terminal
            THEN /\ r.exc = "None"
                 /\ r.prefix = key
                 /\ Deref(heap, r.data) = Values(trie, heap, key)
            ELSE r.exc = "KeyError"

\* ---- C8 ----
\* the terminal nodes on the path of key
TerminalsOn(key) == {k \in DOMAIN trie : IsPrefix(k, key) /\ trie[k].terminal}

\* C8: find(key, SHORTEST_PREFIX) returns the prefix and the values of the
\* shallowest terminal node on the path of key, the root included, and raises
\* KeyError when no terminal node lies on that path.
C8_FindShortest ==
    \A key \in FindKeys :
        LET r == find(trie, key, MODE_SHORTEST_PREFIX)
            S == TerminalsOn(key)
        IN  IF S = {}
            THEN r.exc = "KeyError"
            ELSE /\ r.exc = "None"
                 /\ r.prefix = Shortest(S)
                 /\ Deref(heap, r.data) = Values(trie, heap, Shortest(S))

\* ---- C9 ----
\* C9: add_mapping raises nothing in any state; adding the same (base, mask,
\* hop) twice stores two more copies of hop at the key, lookup returns them
\* both, one remove_mapping leaves the key matching, and for a key that held
\* nothing before it takes the second remove_mapping to stop the key matching.
\* The lookups are those of Ips, which has an address under each key the calls
\* of the model can store, and there is one call for each key (Mappings).
C9_DuplicatesKept ==
    \A base \in Bases, mask \in Masks, hop \in Hops :
        <<base, mask>> \in Mappings =>
        \A old \in {Values(trie, heap, Key(base, mask))} :
        \A a1 \in {add_mapping(trie, heap, base, mask, hop)} :
        \A a2 \in {add_mapping(a1.trie, a1.heap, base, mask, hop)} :
        \A d1 \in {remove_mapping(a2.trie, a2.heap, base, mask, hop)} :
        \A d2 \in {remove_mapping(d1.trie, d1.heap, base, mask, hop)} :
        \A inside \in {InsideAmong(Ips, a2.trie, a2.heap, base, mask)} :
            /\ a1.exc = "None" /\ a2.exc = "None"
            /\ Values(a2.trie, a2.heap, Key(base, mask)) = old \o <<hop, hop>>
            /\ \A ip \in inside :
                   LET r == lookup(a2.trie, ip, FALSE)
                   IN  /\ r.exc = "None"
                       /\ r.val.mask = mask
                       /\ Deref(a2.heap, r.val.next_hop) = old \o <<hop, hop>>
            /\ d1.exc = "None"
            /\ Count(hop, Values(d1.trie, d1.heap, Key(base, mask))) = Count(hop, old) + 1
            /\ \A ip \in inside :
                   LET r == lookup(d1.trie, ip, FALSE)
                   IN  r.exc = "None" /\ r.val.mask = mask
            /\ d2.exc = "None"
            /\ old = <<>> =>
                   \A ip \in inside :
                       LET r == lookup(d2.trie, ip, FALSE)
                       IN  r.exc = "KeyError" \/ r.val.mask < mask

\* a lookup has returned a list that holds the same hop twice
C9_Witness ==
    /\ result.op = "lookup" /\ result.exc = "None"
    /\ Deref(heap, result.val.next_hop) = <<"HopA", "HopA">>

\* ---- C10 ----
\* C10: in every reachable state each node is terminal if and only if its value
\* list is non-empty; a node that is not terminal has no list or an empty one.
C10_TerminalIffValues ==
    \A n \in DOMAIN trie :
        /\ trie[n].terminal <=> (trie[n].data.t = "list" /\ heap[trie[n].data.id] # <<>>)
        /\ ~trie[n].terminal => (trie[n].data = PyNone \/ heap[trie[n].data.id] = <<>>)

\* a remove_mapping has just failed with ValueError, and the trie has a terminal
\* node, a node emptied by an earlier remove and a node that never held a value
C10_Witness ==
    /\ result.op = "remove_mapping" /\ result.exc = "ValueError"
    /\ \E n \in DOMAIN trie : trie[n].terminal
    /\ \E n \in DOMAIN trie : ~trie[n].terminal /\ trie[n].data.t = "list"
    /\ \E n \in DOMAIN trie : ~trie[n].terminal /\ trie[n].data = PyNone

\* ---- C11 ----
\* C11: the next-hop collection of a CidrResult that lookup has returned is not
\* changed by a later add_mapping or remove_mapping call: for every lookup
\* that succeeds in a state and every call made after it, the list the result
\* refers to has after the call the content it had when it was returned.
C11_ResultImmutable ==
    \A ip \in Addrs :
        \A r \in {lookup(trie, ip, FALSE)} :
            r.exc = "None" =>
                \A base \in Bases, mask \in Masks, hop \in Hops :
                    /\ Deref(add_mapping(trie, heap, base, mask, hop).heap, r.val.next_hop)
                           = Deref(heap, r.val.next_hop)
                    /\ Deref(remove_mapping(trie, heap, base, mask, hop).heap, r.val.next_hop)
                           = Deref(heap, r.val.next_hop)

\* ---- C12 ----
\* l2 is l without its first item equal to x, the other items in their order
FirstDropped(l, x, l2) ==
    \E i \in 1 .. Len(l) :
        /\ l[i] = x
        /\ \A j \in 1 .. (i - 1) : l[j] # x
        /\ Len(l2) = Len(l) - 1
        /\ \A j \in 1 .. Len(l2) : l2[j] = (IF j < i THEN l[j] ELSE l[j + 1])

\* C12: a successful remove_mapping(base, mask, hop) deletes exactly the first
\* occurrence of hop in the key's value list and keeps every other value, later
\* copies of hop included, in its order; checked on the list of every state and
\* on that list after hop, another value and hop again have been appended,
\* with one call for each key (Mappings).
C12_RemovesFirstOccurrence ==
    \A base \in Bases, mask \in Masks, hop \in Hops :
        <<base, mask>> \in Mappings =>
        \A k \in {Key(base, mask)} :
        \A d0 \in {remove_mapping(trie, heap, base, mask, hop)} :
        /\ d0.exc = "None" =>
               FirstDropped(Values(trie, heap, k), hop, Values(d0.trie, d0.heap, k))
        /\ \A other \in Hops \ {hop} :
           \A a1 \in {add_mapping(trie, heap, base, mask, hop)} :
           \A a2 \in {add_mapping(a1.trie, a1.heap, base, mask, other)} :
           \A a3 \in {add_mapping(a2.trie, a2.heap, base, mask, hop)} :
           \A d \in {remove_mapping(a3.trie, a3.heap, base, mask, hop)} :
               /\ Values(a3.trie, a3.heap, k) = Values(trie, heap, k) \o <<hop, other, hop>>
               /\ d.exc = "None"
               /\ FirstDropped(Values(a3.trie, a3.heap, k), hop, Values(d.trie, d.heap, k))
               /\ Count(hop, Values(d.trie, d.heap, k)) = Count(hop, Values(trie, heap, k)) + 1

\* a remove_mapping has just succeeded and a key still holds a value that the
\* call kept
C12_Witness ==
    /\ result.op = "remove_mapping"
    /\ result.exc = "None"
    /\ \E k \in DOMAIN trie : trie[k].terminal /\ Values(trie, heap, k) = <<"HopB">>

\* ---- C13 ----
\* C13: base and mask of a lookup result come from the matched key alone: mask
\* is the key's length and base is the key padded with zero bits to the address
\* width. Bases that agree on their top mask bits address one mapping: adding
\* through either gives the same trie, a non-canonical base is stored under its
\* literal bit prefix and found again under the padded key, and remove_mapping
\* through the other base removes the value added through the first.
C13_KeyDerived ==
    /\ \A ip \in Ips :
           \A r \in {lookup(trie, ip, FALSE)} :
               r.exc = "None" =>
                   /\ r.val.mask \in 0 .. AddrBits
                   /\ r.val.base % 2^(AddrBits - r.val.mask) = 0
                   /\ \A j \in 1 .. r.val.mask : Bits(r.val.base)[j] = Bits(ip)[j]
                   /\ Values(trie, heap, Key(ip, r.val.mask)) # <<>>
    /\ \A b1 \in Bases, b2 \in Bases, mask \in Masks, hop \in Hops :
           (b1 # b2 /\ Key(b1, mask) = Key(b2, mask)) =>
               \A k \in {Key(b1, mask)} :
               \A a1 \in {add_mapping(trie, heap, b1, mask, hop)} :
               \A a2 \in {add_mapping(trie, heap, b2, mask, hop)} :
               \A d \in {remove_mapping(a1.trie, a1.heap, b2, mask, hop)} :
                   /\ a1 = a2
                   /\ Values(a1.trie, a1.heap, k) = Append(Values(trie, heap, k), hop)
                   /\ remove_mapping(trie, heap, b1, mask, hop)
                          = remove_mapping(trie, heap, b2, mask, hop)
                   /\ d.exc = "None"
                   /\ Len(Values(d.trie, d.heap, k)) = Len(Values(trie, heap, k))
                   /\ \A ip \in {b1, b2} :
                          \A r \in {lookup(a1.trie, ip, FALSE)} :
                              /\ r.exc = "None"
                              /\ r.val.mask >= mask
                              /\ r.val.mask = mask =>
                                     /\ r.val.base = NetworkOf(k)
                                     /\ Deref(a1.heap, r.val.next_hop)
                                            = Values(a1.trie, a1.heap, k)

\* a lookup has returned a network that no add_mapping call was given as its
\* base: the mapping was stored under the top bits of a non-canonical base
C13_Witness ==
    /\ result.op = "lookup"
    /\ result.exc = "None"
    /\ result.val.next_hop.t = "list"
    /\ result.val.mask = 1
    /\ result.val.base \notin Bases
    /\ \A b \in Bases : Key(b, result.val.mask) = Key(result.val.base, result.val.mask)

\* ---- C14 ----
\* the addresses that no value-holding key other than the root covers
DefaultRouted(T, H) ==
    LET specific == Holding(T, H) \ {root}
    IN  {ip \in Addrs : \A k \in specific : ~IsPrefix(k, Bits(ip))}

\* the lookup of every such address returns ("0.0.0.0", 0, the root's values)
\* when the root holds values and raises KeyError when it holds none
DefaultRouteOf(T, H, ips) ==
    \A ip \in ips \cap DefaultRouted(T, H) :
        \A r \in {lookup(T, ip, FALSE)} :
            IF Values(T, H, root) # <<>>
            THEN /\ r.exc = "None"
                 /\ r.val = CidrResult(0, 0, ListRef(root))
                 /\ Deref(H, r.val.next_hop) = Values(T, H, root)
            ELSE r.exc = "KeyError"

\* C14: add_mapping with mask 0 stores the value at the root, whatever the
\* base, and creates no node; the lookup of every address that no more specific
\* mapping covers then returns ("0.0.0.0", 0, the root's values), also when the
\* root has no child for the address's first bit; once remove_mapping has
\* emptied the root's list these lookups raise KeyError again.
C14_DefaultRoute ==
    /\ DefaultRouteOf(trie, heap, Addrs)
    /\ \A base \in Bases, hop \in Hops :
           \A a \in {add_mapping(trie, heap, base, 0, hop)} :
           \A d \in {remove_mapping(trie, heap, base, 0, hop)} :
               /\ a.exc = "None"
               /\ DOMAIN a.trie = DOMAIN trie
               /\ a.trie[root].terminal
               /\ Values(a.trie, a.heap, root) = Append(Values(trie, heap, root), hop)
               /\ DefaultRouteOf(a.trie, a.heap, Ips)
               /\ Values(trie, heap, root) = <<hop>> =>
                      /\ d.exc = "None"
                      /\ Values(d.trie, d.heap, root) = <<>>
                      /\ DefaultRouteOf(d.trie, d.heap, Ips)

\* a lookup has returned the default route although the root has no child at
\* all, so that the walk stopped at the address's first bit
C14_Witness ==
    /\ result.op = "lookup"
    /\ result.exc = "None"
    /\ result.val = CidrResult(0, 0, ListRef(root))
    /\ trie[root].children = EmptyDict
    /\ Values(trie, heap, root) # <<>>

\* ---- C15 ----
\* the nodes on the path of key: its prefixes, the root and key itself included
PathOf(key) == {SubSeq(key, 1, j) : j \in 0 .. Len(key)}

\* node n of T is in T2 with the same character, value list and contents, and
\* with every child it had
KeptIn(T, H, T2, H2, n) ==
    /\ n \in DOMAIN T2
    /\ T2[n].value = T[n].value
    /\ T2[n].data.t = "list" => T2[n].data.id \in DOMAIN H2
    /\ \A c \in DOMAIN T[n].children :
           c \in DOMAIN T2[n].children /\ T2[n].children[c] = T[n].children[c]

\* add_mapping creates the nodes of its key's path that are missing and no
\* other; remove_mapping creates and deletes none and changes nothing but the
\* terminal flag and the value list of the node at its key
C15_Calls ==
    \A base \in Bases, mask \in Masks, hop \in Hops :
        \A k \in {Key(base, mask)} :
        \A a \in {add_mapping(trie, heap, base, mask, hop)} :
        \A d \in {remove_mapping(trie, heap, base, mask, hop)} :
            /\ DOMAIN a.trie = DOMAIN trie \cup PathOf(k)
            /\ \A n \in DOMAIN trie : KeptIn(trie, heap, a.trie, a.heap, n)
            /\ \A n \in DOMAIN trie \ {k} :
                   /\ a.trie[n].terminal = trie[n].terminal
                   /\ Values(a.trie, a.heap, n) = Values(trie, heap, n)
            /\ DOMAIN d.trie = DOMAIN trie
            /\ \A n \in DOMAIN trie :
                   /\ KeptIn(trie, heap, d.trie, d.heap, n)
                   /\ d.trie[n].children = trie[n].children
                   /\ d.trie[n].data = trie[n].data
            /\ \A n \in DOMAIN trie \ {k} :
                   /\ d.trie[n] = trie[n]
                   /\ Values(d.trie, d.heap, n) = Values(trie, heap, n)

\* no step of any operation deletes a node, a child link or a node's character
C15_Step ==
    /\ DOMAIN trie \subseteq DOMAIN trie'
    /\ \A n \in DOMAIN trie : KeptIn(trie, heap, trie', heap', n)
    /\ result'.op # "add_mapping" => DOMAIN trie' = DOMAIN trie

\* C15: no operation ever deletes a trie node. remove leaves the node at its
\* key, its descendants and their values in place and changes only that node's
\* value list and terminal flag; the set of nodes only grows over every
\* sequence of operations; insert creates only the missing nodes of its key's
\* path.
C15_NodesOnlyGrow == [](C15_Calls) /\ [][C15_Step]_vars

\* a remove_mapping has emptied a node that has no child and the node is still
\* in the trie, under a parent that still links to it
C15_Witness ==
    /\ result.op = "remove_mapping"
    /\ result.exc = "None"
    /\ \E n \in DOMAIN trie \ {root} :
           /\ ~trie[n].terminal
           /\ trie[n].children = EmptyDict
           /\ trie[n].data.t = "list"
           /\ Values(trie, heap, n) = <<>>
           /\ \A m \in DOMAIN trie : ~trie[m].terminal

\* ---- C16 ----
\* the nodes that are terminal or have a terminal descendant, and the root
Live(T) ==
    LET terminals == {m \in DOMAIN T : T[m].terminal}
    IN  {n \in DOMAIN T : n = root \/ \E m \in terminals : IsPrefix(n, m)}

\* the trie T with every other node unlinked from its parent and dropped
Pruned(T) ==
    LET live == Live(T)
    IN  [n \in live |->
            [T[n] EXCEPT !.children =
                [c \in {x \in DOMAIN T[n].children : T[n].children[x] \in live} |->
                    T[n].children[c]]]]

\* C16: the non-terminal nodes that remove leaves behind cannot be observed:
\* in every reachable state every lookup, every find and every remove_mapping
\* returns or raises on the trie what it returns or raises on the trie with all
\* non-terminal nodes without a terminal descendant pruned, and a remove_mapping
\* leaves the two tries equal up to such nodes.
C16_PrunedEquivalent ==
    \A P \in {Pruned(trie)} :
        /\ \A ip \in Ips, return_unroutable \in BOOLEAN :
               lookup(trie, ip, return_unroutable) = lookup(P, ip, return_unroutable)
        /\ \A key \in FindKeys, mode \in Modes : find(trie, key, mode) = find(P, key, mode)
        /\ \A base \in Bases, mask \in Masks, hop \in Hops :
               \A d1 \in {remove_mapping(trie, heap, base, mask, hop)} :
               \A d2 \in {remove_mapping(P, heap, base, mask, hop)} :
                   /\ d1.exc = d2.exc
                   /\ d1.heap = d2.heap
                   /\ IF d1.exc = "None"
                      THEN Pruned(d1.trie) = Pruned(d2.trie)
                      ELSE d1.trie = trie /\ d2.trie = P

\* a lookup has succeeded in a trie that holds a node remove has left behind
\* and that pruning would drop
C16_Witness ==
    /\ result.op = "lookup"
    /\ result.exc = "None"
    /\ result.val.next_hop.t = "list"
    /\ \E n \in DOMAIN trie \ Live(trie) : Len(n) = AddrBits /\ trie[n].data.t = "list"

\* ---- C17 ----
\* a lookup or find step leaves every node, flag, child link and value list as
\* it was, and the lookup just made, made again, returns what it returned
C17_Step ==
    /\ result'.op \in {"lookup", "find"} =>
           /\ trie' = trie
           /\ heap' = heap
    /\ result'.op = "lookup" =>
           \E ip \in Ips, return_unroutable \in BOOLEAN :
               /\ lookup(trie, ip, return_unroutable) = [exc |-> result'.exc, val |-> result'.val]
               /\ lookup(trie', ip, return_unroutable) = [exc |-> result'.exc, val |-> result'.val]
               /\ (result'.exc = "None" /\ result'.val # Unroutable) =>
                      Deref(heap', result'.val.next_hop) = Deref(heap, result'.val.next_hop)

\* C17: lookup and find are read-only: whether they return a mapping, raise
\* KeyError or return the unroutable sentinel, they leave every node's
\* children, terminal flag and value list unchanged, and the same lookup made
\* again with no add or remove in between returns the same result.
C17_ReadOnly == [][C17_Step]_vars

\* a lookup has returned the unroutable sentinel in a trie that holds mappings
C17_Witness ==
    /\ result.op = "lookup"
    /\ result.val = Unroutable
    /\ Holding(trie, heap) # {}

\* ---- C18 ----
\* a remove_mapping step that raises leaves every node, flag and list as it was
C18_Step ==
    (result'.op = "remove_mapping" /\ result'.exc # "None") =>
        /\ result'.exc \in {"KeyError", "ValueError"}
        /\ DOMAIN trie' = DOMAIN trie
        /\ \A n \in DOMAIN trie : trie'[n] = trie[n]
        /\ heap' = heap
        /\ \A ip \in Ips : lookup(trie', ip, FALSE) = lookup(trie, ip, FALSE)

\* C18: a remove_mapping call that fails, with KeyError (no mapping at the key)
\* or with ValueError (the key holds values but not this one), leaves the trie
\* unchanged: no node, terminal flag or value list differs from before the
\* call and every lookup returns what it returned before.
C18_FailedRemoveKeepsTrie == [][C18_Step]_vars

\* a remove_mapping has raised ValueError at a key that holds other values
C18_Witness ==
    /\ result.op = "remove_mapping"
    /\ result.exc = "ValueError"
    /\ \E n \in DOMAIN trie : trie[n].terminal /\ Values(trie, heap, n) # <<>>
    /\ TotalValues = MaxValues

\* ---- C19 ----
\* the lookup of ip names the same mapping in (T2, H2) as in (T, H) or fails the
\* same way
SameMatch(T, T2, ip) == lookup(T2, ip, FALSE) = lookup(T, ip, FALSE)

\* the next-hop list that the lookup of ip returns in (T, H), <<>> when it fails
HopsAt(T, H, ip) ==
    LET r == lookup(T, ip, FALSE)
    IN  IF r.exc = "None" THEN Deref(H, r.val.next_hop) ELSE <<>>

\* C19 as stated: in every state add_mapping(b, m, h) followed at once by
\* remove_mapping(b, m, h) succeeds and leaves the result of every lookup, the
\* content and the order of the next-hop list included, as it was before the
\* add. Ips has an address under each key the calls of the model can store.
C19_Original ==
    \A base \in Bases, mask \in Masks, hop \in Hops :
        \A a \in {add_mapping(trie, heap, base, mask, hop)} :
        \A d \in {remove_mapping(a.trie, a.heap, base, mask, hop)} :
            /\ d.exc = "None"
            /\ \A ip \in Ips :
                   /\ SameMatch(trie, d.trie, ip)
                   /\ HopsAt(d.trie, d.heap, ip) = HopsAt(trie, heap, ip)

\* l2 is l with its first item equal to x moved to the end, l itself when no
\* item of l equals x
FirstMovedToEnd(l, x, l2) ==
    IF x \notin Range(l) THEN l2 = l
    ELSE /\ Len(l2) = Len(l)
         /\ l2[Len(l2)] = x
         /\ FirstDropped(l, x, SubSeq(l2, 1, Len(l2) - 1))

\* C19 amended: the round trip succeeds; every lookup matches the mapping it
\* matched before, or fails as before; the list of every key but (b, m) is as it
\* was; the list at (b, m) is as it was when it did not hold h, and otherwise
\* is the old list with its first h moved to the end. Checked with one call
\* for each key (Mappings) and the lookups of Ips.
C19_Amended ==
    \A before \in {[ip \in Ips |-> lookup(trie, ip, FALSE)]} :
    \A base \in Bases, mask \in Masks, hop \in Hops :
        <<base, mask>> \in Mappings =>
        \A k \in {Key(base, mask)} :
        \A a \in {add_mapping(trie, heap, base, mask, hop)} :
        \A d \in {remove_mapping(a.trie, a.heap, base, mask, hop)} :
            /\ d.exc = "None"
            /\ FirstMovedToEnd(Values(trie, heap, k), hop, Values(d.trie, d.heap, k))
            /\ \A n \in DOMAIN d.trie \ {k} : Values(d.trie, d.heap, n) = Values(trie, heap, n)
            /\ \A ip \in Ips :
                   \A r \in {lookup(d.trie, ip, FALSE)} :
                       /\ r = before[ip]
                       /\ r.exc = "None" =>
                              IF Key(r.val.base, r.val.mask) = k
                              THEN FirstMovedToEnd(Deref(heap, r.val.next_hop), hop,
                                                   Deref(d.heap, r.val.next_hop))
                              ELSE Deref(d.heap, r.val.next_hop) = Deref(heap, r.val.next_hop)

\* an add_mapping and then a remove_mapping have been made on an empty trie:
\* the key's path is there, no node is terminal and the one list is empty
C19_Witness ==
    /\ result.op = "remove_mapping"
    /\ result.exc = "None"
    /\ Holding(trie, heap) = {}
    /\ DOMAIN heap = {Key(2^AddrBits - 1, AddrBits)}
    /\ \A n \in DOMAIN trie : ~trie[n].terminal
====
